---- MODULE Spec2Model ----
(***************************************************************************)
(* Push-notification channels and incremental sync of core-api.            *)
(*                                                                         *)
(* The durable store is modelled by five tables (users, ext_connections,   *)
(* push_subscriptions, emails, calendar_events); the provider (Gmail /     *)
(* Calendar) and the store answer every call either normally or with an    *)
(* error, and the answers are inputs of the actions.                       *)
(*                                                                         *)
(* Specifications:                                                         *)
(*   SpecWatch  watch_manager.py: start / stop / renew, one call at a time *)
(*   SpecSync   reconciliation runs, one run at a time, one step per       *)
(*              provider or store call                                     *)
(*   SpecRace   the same steps with two mail runs interleaved              *)
(*   SpecHook   routers/webhooks.py: the two webhook handlers              *)
(*   SpecCron   the query for expiring subscriptions and the renewal sweep *)
(*   SpecJobs   routers/cron.py: the four scheduled jobs, any request      *)
(*   SpecAccess the store client each kind of entry point obtains          *)
(*   SpecToken  access tokens: the refresh before a provider call          *)
(*   SpecAuth   services/auth.py: saving and revoking OAuth connections    *)
(*   SpecMail   mail reconciliation together with the user email actions   *)
(*   SpecPages  mail reconciliation over a history split across pages      *)
(*   SpecEnsure routers/sync.py: ensure-watches                            *)
(*   SpecStarts two start / renew calls, their store calls interleaved     *)
(*   SpecTasks  services/tasks.py: the in-memory TaskService               *)
(***************************************************************************)
EXTENDS Integers, Sequences, FiniteSets, TLC

VARIABLES
    subs,       \* push_subscriptions: a set of rows
    nextSubId,  \* next primary key / channel uuid of push_subscriptions
    lastCall,   \* the last completed watch-manager or webhook call and its result
    emails,     \* emails: a set of rows
    events,     \* calendar_events: a set of rows
    nextRowId,  \* next primary key of emails / calendar_events
    run,        \* the reconciliation runs in flight, one record per worker
    conns,      \* ext_connections: a set of rows
    users,      \* users: the ids that have a row
    taskService,  \* the class attributes of TaskService (services/tasks.py)
    taskLog     \* the ids create_task has returned and delete_task has deleted

vars ==
    <<subs, nextSubId, lastCall, emails, events, nextRowId, run, conns, users,
      taskService, taskLog>>

----------------------------------------------------------------------------
(* Bounds *)

\* push_subscriptions rows ever inserted
MaxSubs == 2
\* largest history id / sync token the provider hands out
MaxCursor == 2
\* emails / calendar_events rows ever inserted
MaxRowId == 2
\* changes in one fetched history batch / event list
MaxBatch == 2
\* notifications counted on one subscription
MaxNotify == 1
\* latest minute at which a call reads the clock
MaxClock == 1
\* ext_connections rows ever inserted
MaxConns == 2
\* tasks ever created by TaskService.create_task
MaxTasks == 2

\* Times are whole minutes: timedelta(hours=1)
HourMinutes == 60
\* hours_threshold = 24, timedelta(hours=24)
DayHours == 24
\* GMAIL_WATCH_EXPIRATION_DAYS, CALENDAR_WATCH_EXPIRATION_DAYS
WatchDays == 7

Providers == {"gmail", "calendar"}
Cursors == 1..MaxCursor
\* None
NoCursor == 0

----------------------------------------------------------------------------
(* TaskService (services/tasks.py): the in-memory task store.  taskLog keeps *)
(* the history of the calls: the ids create_task returned, in order, and    *)
(* the ids delete_task deleted.                                             *)

\* _tasks_db: List = [], _task_id_counter: int = 1
NewTaskService == [tasks_db |-> <<>>, task_id_counter |-> 1]

NoTaskLog == [issued |-> <<>>, deleted |-> {}]

\* task_data of create_task / update_task
TaskData == [title : {"a", "b"}, completed : BOOLEAN]

\* the ids callers ask for: those handed out and one more
TaskIds == 1..(MaxTasks + 1)

\* for idx, task in enumerate(cls._tasks_db): if task['id'] == task_id:
\* the first index that matches, 0 when the loop ends without a match
TaskIndex(db, id) ==
    IF \E i \in 1..Len(db) : db[i].id = id
    THEN CHOOSE i \in 1..Len(db) :
            db[i].id = id /\ \A j \in 1..(i - 1) : db[j].id # id
    ELSE 0

NextTaskId_Length(T) == Len(T.tasks_db) + 1

\* 'id': cls._task_id_counter
NextTaskId(T) == T.task_id_counter

NewTask(id, data) ==
    [id |-> id, title |-> data.title, completed |-> data.completed]

\* cls._tasks_db.append(new_task); cls._task_id_counter += 1
CreateTask(T, data) ==
    [tasks_db |-> Append(T.tasks_db, NewTask(NextTaskId(T), data)),
     task_id_counter |-> T.task_id_counter + 1]

\* get_task_by_id: the task found, {} for None
GetTaskById(T, id) ==
    IF TaskIndex(T.tasks_db, id) = 0 THEN {}
    ELSE {T.tasks_db[TaskIndex(T.tasks_db, id)]}

\* cls._tasks_db[idx] = updated_task
UpdateTask(T, id, data) ==
    IF TaskIndex(T.tasks_db, id) = 0 THEN T
    ELSE [T EXCEPT !.tasks_db[TaskIndex(T.tasks_db, id)] = NewTask(id, data)]

\* cls._tasks_db.pop(idx)
DeleteTask(T, id) ==
    LET i == TaskIndex(T.tasks_db, id)
    IN  IF i = 0 THEN T
        ELSE [T EXCEPT !.tasks_db = SubSeq(T.tasks_db, 1, i - 1)
                                      \o SubSeq(T.tasks_db, i + 1, Len(T.tasks_db))]

TaskCall(op, id, found) ==
    [op |-> op, provider |-> "none",
     res |-> IF found = {} THEN "not_found" ELSE "ok", id |-> id, found |-> found]

UnchangedOutsideTasks ==
    UNCHANGED <<subs, nextSubId, emails, events, nextRowId, run, conns, users>>

create_task ==
    /\ taskService.task_id_counter <= MaxTasks
    /\ \E data \in TaskData :
         /\ taskService' = CreateTask(taskService, data)
         /\ taskLog' = [taskLog EXCEPT !.issued = Append(@, NextTaskId(taskService))]
         /\ lastCall' = TaskCall("create_task", NextTaskId(taskService),
                                 {NewTask(NextTaskId(taskService), data)})
    /\ UnchangedOutsideTasks

get_task_by_id ==
    /\ \E id \in TaskIds :
         lastCall' = TaskCall("get_task_by_id", id, GetTaskById(taskService, id))
    /\ UNCHANGED <<taskService, taskLog>>
    /\ UnchangedOutsideTasks

update_task ==
    /\ \E id \in TaskIds, data \in TaskData :
         /\ taskService' = UpdateTask(taskService, id, data)
         /\ lastCall' = TaskCall("update_task", id,
                                 GetTaskById(UpdateTask(taskService, id, data), id))
    /\ UNCHANGED taskLog
    /\ UnchangedOutsideTasks

delete_task ==
    /\ \E id \in TaskIds :
         /\ taskService' = DeleteTask(taskService, id)
         /\ taskLog' = IF GetTaskById(taskService, id) = {} THEN taskLog
                       ELSE [taskLog EXCEPT !.deleted = @ \cup {id}]
         /\ lastCall' = TaskCall("delete_task", id, GetTaskById(taskService, id))
    /\ UnchangedOutsideTasks

----------------------------------------------------------------------------
(* ext_connections *)

\* user ids
Users == {"u1", "u2"}
\* provider_user_id: the Google accounts a user may connect
Accounts == {"a1", "a2"}

\* A timestamp column holds None or a time: the empty set or a one-element set
NoTime == {}

\* The row create_oauth_connection and complete_oauth_flow write for the
\* provider 'google'.  access_token is 0 for None, otherwise the number of the
\* token the provider issued; refresh_token tells whether one is stored.
NewConn(id, user, account, token, refresh, expires) ==
    [id |-> id, user_id |-> user, provider_user_id |-> account,
     is_active |-> TRUE, access_token |-> token, refresh_token |-> refresh,
     token_expires_at |-> expires, last_synced |-> NoTime]

\* The user's connection in the specifications whose calls leave
\* ext_connections alone
TheConn == NewConn(1, "u1", "a1", 1, TRUE, NoTime)

----------------------------------------------------------------------------
(* push_subscriptions *)

\* .eq('provider', p).eq('is_active', True) for the one user
ActiveSubs(S, p) == {s \in S : s.provider = p /\ s.is_active}

\* .update({'is_active': False}).eq('id', id)
Deactivate(S, id) ==
    {IF s.id = id THEN [s EXCEPT !.is_active = FALSE] ELSE s : s \in S}

\* expiration of a watch started at time 0: the provider's answer, or
\* now + timedelta(days=7) when it gives none
WatchLifetime == WatchDays * DayHours * HourMinutes

\* subscription_data of start_gmail_watch / start_calendar_watch
NewSub(id, p, cursor) ==
    [id |-> id, provider |-> p, channel_id |-> id, is_active |-> TRUE,
     cursor |-> cursor, notification_count |-> 0, expiration |-> WatchLifetime]

\* The answers the provider and the store give during one stop call, as the
\* first call that fails:
\*   "conn" get_*_service finds no connection   "sel" the select fails
\*   "http" the provider's stop call raises HttpError (logged, the call goes on)
\*   "other" the provider's stop call raises another error
\*   "upd" the update fails                      "none" every call succeeds
StopAnswers == {"none", "conn", "sel", "http", "other", "upd"}

StopWatch_NoEmptyCheck(S, p, row, a) ==
    IF a \in {"conn", "sel", "other", "upd"} THEN [subs |-> S, res |-> "error"]
    ELSE [subs |-> Deactivate(S, row.id), res |-> "stopped"]

\* stop_gmail_watch / stop_calendar_watch: the table afterwards and the outcome.
\* row is subscription.data[0], any of the active rows.
StopWatch(S, p, row, a) ==
    IF a \in {"conn", "sel"} THEN [subs |-> S, res |-> "error"]
    ELSE IF ActiveSubs(S, p) = {} THEN [subs |-> S, res |-> "nothing_to_stop"]
    ELSE IF a \in {"other", "upd"} THEN [subs |-> S, res |-> "error"]
    ELSE [subs |-> Deactivate(S, row.id), res |-> "stopped"]

\* the call of a stop that raised: "none" when the calls it made all succeeded
\* or the error was only logged
StopRaised(S, p, a) ==
    IF a \in {"conn", "sel"} THEN a
    ELSE IF ActiveSubs(S, p) # {} /\ a \in {"other", "upd"} THEN a
    ELSE "none"

\* The cursor a successful start stores: the historyId of the gmail watch
\* response; for calendar the nextSyncToken of a first events().list(), None
\* when that fetch fails (the failure is logged, the start goes on)
WatchCursors(p) == IF p = "calendar" THEN {NoCursor} \cup Cursors ELSE Cursors

\* The answers during one start call: the first of its own calls that fails
\* ("conn", "sel", "watch", "ins" or "none"), the answers of the stop call it
\* makes when an active row exists, and the cursor it stores.  Answers to calls
\* that are never made are left out.
StartAnswers(p) ==
    [fail : {"conn", "sel"}, stop : {"none"}, cursor : {NoCursor}]
      \cup [fail : {"watch"}, stop : StopAnswers, cursor : {NoCursor}]
      \cup [fail : {"ins", "none"}, stop : StopAnswers, cursor : WatchCursors(p)]

\* The table after the "stop existing watch first" block of start: the stop is
\* attempted only when an active row exists and whatever it raises is swallowed.
AfterStopExisting(S, p, row, a) ==
    IF ActiveSubs(S, p) = {} THEN S ELSE StopWatch(S, p, row, a.stop).subs

\* How the "stop existing watch first" block of start ended: "not_run" when
\* start failed before it or no active row exists, else the outcome of the stop
StopPhase(S, p, row, a) ==
    IF a.fail \in {"conn", "sel"} \/ ActiveSubs(S, p) = {} THEN "not_run"
    ELSE StopWatch(S, p, row, a.stop).res

\* The provider calls of start itself: whether the watch request was issued and
\* how it ended, and for calendar how the sync-token fetch that follows it ended
WatchRequest(a) ==
    IF a.fail \in {"conn", "sel"} THEN "not_issued"
    ELSE IF a.fail = "watch" THEN "failed" ELSE "ok"

TokenFetch(p, a) ==
    IF p # "calendar" \/ a.fail \notin {"ins", "none"} THEN "not_issued"
    ELSE IF a.cursor = NoCursor THEN "failed" ELSE "ok"

StartWatch_StopAborts(S, p, row, a, id) ==
    IF a.fail \in {"conn", "sel", "watch", "ins"} \/ StopPhase(S, p, row, a) = "error"
    THEN [subs |-> S, res |-> "error"]
    ELSE [subs |-> AfterStopExisting(S, p, row, a) \cup {NewSub(id, p, a.cursor)},
          res |-> "success"]

\* start_gmail_watch / start_calendar_watch: the table afterwards and the outcome.
StartWatch(S, p, row, a, id) ==
    IF a.fail \in {"conn", "sel"} THEN [subs |-> S, res |-> "error"]
    ELSE LET S1 == AfterStopExisting(S, p, row, a)
         IN  IF a.fail \in {"watch", "ins"} THEN [subs |-> S1, res |-> "error"]
             ELSE [subs |-> S1 \cup {NewSub(id, p, a.cursor)}, res |-> "success"]

\* data[0] of a select of the active rows: any of them; a placeholder when none
FirstRows(S, p) ==
    IF ActiveSubs(S, p) = {} THEN {NewSub(0, p, NoCursor)} ELSE ActiveSubs(S, p)

NoCall == [op |-> "none", provider |-> "none", res |-> "none"]

UnchangedSync == UNCHANGED <<emails, events, nextRowId, run, conns, users,
      taskService, taskLog>>

\* auth_supabase = get_authenticated_supabase_client(user_jwt), the first
\* statement of every start and stop function
WatchClient == "user_jwt"

StartCall(op, p) ==
    /\ nextSubId <= MaxSubs
    /\ \E a \in StartAnswers(p), row \in FirstRows(subs, p) :
         LET r == StartWatch(subs, p, row, a, nextSubId)
         IN  /\ subs' = r.subs
             /\ nextSubId' = IF r.res = "success" THEN nextSubId + 1 ELSE nextSubId
             /\ lastCall' = [op |-> op, provider |-> p, res |-> r.res,
                             stop |-> StopPhase(subs, p, row, a),
                             watch |-> WatchRequest(a), token |-> TokenFetch(p, a),
                             store |-> IF a.fail = "ins" THEN "failed" ELSE "ok",
                             client |-> WatchClient]
    /\ UnchangedSync

StopCall(p) ==
    /\ \E a \in StopAnswers, row \in FirstRows(subs, p) :
         LET r == StopWatch(subs, p, row, a)
         IN  /\ subs' = r.subs
             /\ lastCall' = [op |-> "stop", provider |-> p, res |-> r.res,
                             raised |-> StopRaised(subs, p, a),
                             client |-> WatchClient]
    /\ UNCHANGED nextSubId
    /\ UnchangedSync

start_gmail_watch == StartCall("start", "gmail")

start_calendar_watch == StartCall("start", "calendar")

stop_gmail_watch == StopCall("gmail")

stop_calendar_watch == StopCall("calendar")

\* renew_watch(provider): start_gmail_watch or start_calendar_watch
renew_watch == \E p \in Providers : StartCall("renew", p)

----------------------------------------------------------------------------
(* emails and calendar_events *)

Workers == {1, 2}
\* external ids of messages / calendar items
Exts == {"x1", "x2"}
LabelIds == {"UNREAD", "STARRED"}
\* labelIds of one labelsAdded / labelsRemoved change
LabelArgs == {{"UNREAD"}, {"STARRED"}}
Statuses == {"confirmed", "tentative", "cancelled"}

\* email_data: the columns derived from the fetched message
EmailData(ext, labels) ==
    [external_id |-> ext, labels |-> labels,
     is_read |-> ~("UNREAD" \in labels), is_starred |-> "STARRED" \in labels]

\* event_data: the columns derived from the calendar item
EventData(ext, status) == [external_id |-> ext, status |-> status]

WithId(data, id) ==
    [f \in DOMAIN data \cup {"id"} |-> IF f = "id" THEN id ELSE data[f]]

\* .select(...).eq('user_id', user_id).eq('external_id', ext)
SelectByExt(T, ext) == {r \in T : r.external_id = ext}

\* existing.data[0]['id'] of that select: the id of any matching row, 0 when none
ExistingIds(T, ext) ==
    IF SelectByExt(T, ext) = {} THEN {0} ELSE {r.id : r \in SelectByExt(T, ext)}

\* .update(data).eq('id', id)
UpdateById(T, id, data) ==
    {IF r.id = id THEN WithId(data, id) ELSE r : r \in T}

\* .insert(data)
InsertRow(T, id, data) == T \cup {WithId(data, id)}

UpsertWrite_AlwaysInsert(T, existing, data, id) == InsertRow(T, id, data)

\* "Upsert": update the row found by the select, insert when none was found
UpsertWrite(T, existing, data, id) ==
    IF existing # 0 THEN UpdateById(T, existing, data) ELSE InsertRow(T, id, data)

DeleteByExt_KeepRow(T, ext) == T

\* .delete().eq('user_id', user_id).eq('external_id', ext)
DeleteByExt(T, ext) == {r \in T : r.external_id # ext}

\* new_labels of a label change
NewLabels(current, t, labelIds) ==
    IF t = "labelsAdded" THEN current \cup labelIds ELSE current \ labelIds

\* the columns a label change writes
LabelUpdate(r, labels) ==
    [r EXCEPT !.labels = labels, !.is_read = ~("UNREAD" \in labels),
              !.is_starred = "STARRED" \in labels]

\* update_email_labels: .update({labels, is_read, is_starred}).eq('id', id)
UpdateLabelsById(T, id, labels) ==
    {IF r.id = id THEN LabelUpdate(r, labels) ELSE r : r \in T}

\* process_gmail_history: the same update .eq('user_id', ..).eq('external_id', ext)
UpdateLabelsByExt(T, ext, labels) ==
    {IF r.external_id = ext THEN LabelUpdate(r, labels) ELSE r : r \in T}

----------------------------------------------------------------------------
(* Reconciliation runs.  kind is the entry point:                          *)
(*   "PGH" process_gmail_history (sync_gmail.py)                           *)
(*   "PGN" process_gmail_notification -> process_gmail_history_changes     *)
(*   "PCN" process_calendar_notification -> process_calendar_sync          *)
(* todo counts the changes of the fetched batch not yet processed; the     *)
(* content of each change is drawn when the loop reaches it.               *)
(* op, ext, labels, status are the change the loop is at, applied whether  *)
(* its write was made, hit whether that write found a row, rep how many    *)
(* times in a row the run has applied this same added message or calendar  *)
(* item; failed, wrote and abortedBy record what happened to the run.      *)

IdleRun ==
    [kind |-> "idle", pc |-> "idle", sub |-> 0, start |-> NoCursor,
     ncount |-> 0, latest |-> NoCursor, todo |-> 0,
     op |-> "none", ext |-> "none", existing |-> 0, labels |-> {},
     labelIds |-> {}, more |-> FALSE,
     status |-> "none", applied |-> FALSE, hit |-> FALSE, rep |-> 0,
     failed |-> FALSE, wrote |-> FALSE, abortedBy |-> "none", result |-> "none"]

\* the function returns: its locals are gone, the result and the record of
\* what happened to the run remain
Ended(r, result, why, wrote) ==
    [IdleRun EXCEPT !.kind = r.kind, !.pc = "done", !.sub = r.sub,
                    !.latest = r.latest, !.more = r.more,
                    !.failed = r.failed, !.wrote = wrote,
                    !.abortedBy = why, !.result = result]

\* the outer except: the run ends with an error
Abort(r, why) == Ended(r, "error", why, FALSE)

\* the loop goes on to the next change
Advance(r) ==
    [r EXCEPT !.todo = r.todo - 1,
              !.pc = IF r.todo - 1 = 0 THEN "finish" ELSE "apply"]

\* a per-change except ... continue: the change is dropped, the loop goes on
Skip(r) == [Advance(r) EXCEPT !.failed = TRUE, !.applied = FALSE]

\* the loop reaches its next change
NextChange(r, op, ext, labels, status, existing) ==
    [r EXCEPT !.op = op, !.ext = ext, !.labels = labels, !.status = status,
              !.existing = existing, !.applied = FALSE, !.hit = FALSE,
              !.labelIds = {},
              !.rep = IF /\ op \in {"added", "event", "cancelled"}
                         /\ r.applied /\ r.op = op
                         /\ r.ext = ext /\ r.labels = labels /\ r.status = status
                      THEN r.rep + 1 ELSE 1]

\* the write of the change was made; hit: it found a row
Applied(r, hit) == Advance([r EXCEPT !.applied = TRUE, !.hit = hit])

\* What an exception raised while applying one change does to the run:
\* process_gmail_history wraps each change in try/except and continues;
\* process_gmail_history_changes and process_calendar_sync have no inner try,
\* the exception leaves the loop.
OnItemError(r, why) ==
    IF r.kind = "PGH" THEN Skip(r) ELSE Abort(r, why)

SetRun(w, r) == run' = [run EXCEPT ![w] = r]

UnchangedWatch == UNCHANGED <<nextSubId, lastCall, conns, users,
      taskService, taskLog>>

----------------------------------------------------------------------------
(* Specification of the watch manager *)

InitWatch ==
    /\ subs = {}
    /\ nextSubId = 1
    /\ lastCall = NoCall
    /\ emails = {}
    /\ events = {}
    /\ nextRowId = 1
    /\ run = [w \in Workers |-> IdleRun]
    /\ users = Users
    /\ taskService = NewTaskService
    /\ taskLog = NoTaskLog
    /\ conns = {TheConn}

NextWatch ==
    \/ start_gmail_watch
    \/ start_calendar_watch
    \/ stop_gmail_watch
    \/ stop_calendar_watch
    \/ renew_watch

SpecWatch == InitWatch /\ [][NextWatch]_vars

----------------------------------------------------------------------------
(* Mail reconciliation *)

\* process_gmail_history(user_id, user_jwt, start_history_id): the caller passes
\* the history id stored on the user's active gmail subscription.
PGH_Start(w) ==
    /\ run[w].pc = "idle"
    /\ \E s \in ActiveSubs(subs, "gmail"), conn \in BOOLEAN :
         SetRun(w, IF ~conn
                   THEN Abort([IdleRun EXCEPT !.kind = "PGH"], "connection")
                   ELSE [IdleRun EXCEPT !.kind = "PGH", !.pc = "fetch",
                                        !.sub = s.id, !.start = s.cursor])
    /\ UNCHANGED <<subs, emails, events, nextRowId>>
    /\ UnchangedWatch

\* process_gmail_notification(channel_id, resource_state, data): a 'sync' message
\* returns at once; otherwise the subscription is looked up by channel id
\* (nextSubId is a channel id no row has).  data['historyId'] is drawn where
\* it is read, in PGN_Finish.
PGN_Start(w) ==
    /\ run[w].pc = "idle"
    /\ \E state \in {"sync", "exists"}, ch \in 1..nextSubId, sel \in BOOLEAN :
         LET found == {s \in ActiveSubs(subs, "gmail") : s.channel_id = ch}
             new == [IdleRun EXCEPT !.kind = "PGN"]
         IN  IF state = "sync" THEN UNCHANGED run
             ELSE IF ~sel \/ Cardinality(found) # 1
             THEN SetRun(w, Abort(new, "subscription"))
             ELSE \E s \in found :
                    /\ s.notification_count < MaxNotify
                    /\ SetRun(w, [new EXCEPT !.pc = "fetch", !.sub = s.id,
                                             !.start = s.cursor,
                                             !.ncount = s.notification_count])
    /\ UNCHANGED <<subs, emails, events, nextRowId>>
    /\ UnchangedWatch

\* the provider rejects startHistoryId as expired or invalid (HttpError 404):
\* the error is logged and raised like any other, the stored cursor is left
\* as it is; start stays on record as the rejected cursor
CursorRejected(r) == [Abort(r, "expired") EXCEPT !.start = r.start]

\* service.users().history().list(startHistoryId = start): an error ends the run;
\* otherwise 'history' (todo changes) and 'historyId' (latest).
\* process_gmail_history returns early, before the cursor update, when the
\* history is empty; process_gmail_history_changes returns to its caller.
\* Tokens: whether the response may carry a nextPageToken (more pages of
\* changes upstream); no statement of either function reads it, and
\* 'historyId' is the mailbox's current history id whatever the page.
HistoryList(w, Tokens) ==
    /\ run[w].kind \in {"PGH", "PGN"}
    /\ run[w].pc = "fetch"
    /\ \/ SetRun(w, Abort(run[w], "list"))
       \/ SetRun(w, CursorRejected(run[w]))
       \/ \E n \in 0..MaxBatch, latest \in {c \in Cursors : c >= run[w].start},
             more \in Tokens :
         SetRun(w, IF n > 0
                   THEN [run[w] EXCEPT !.pc = "apply", !.todo = n, !.latest = latest,
                                       !.more = more]
                   ELSE IF run[w].kind = "PGH"
                   THEN Ended([run[w] EXCEPT !.latest = latest], "ok", "none", FALSE)
                   ELSE [run[w] EXCEPT !.pc = "finish", !.latest = latest])
    /\ UNCHANGED <<subs, emails, events, nextRowId>>
    /\ UnchangedWatch

\* a history that fits one page
Mail_Fetch(w) == HistoryList(w, {FALSE})

\* a history the provider may split across pages
Mail_FetchPaged(w) == HistoryList(w, BOOLEAN)

\* messagesAdded: messages().get(id) and the select of the existing row
Mail_Lookup(w) ==
    /\ run[w].kind \in {"PGH", "PGN"}
    /\ run[w].pc = "apply"
    /\ \/ \E why \in {"item_get", "store"} : SetRun(w, OnItemError(run[w], why))
       \/ \E ext \in Exts, labels \in SUBSET LabelIds :
            \E id \in ExistingIds(emails, ext) :
              SetRun(w, [NextChange(run[w], "added", ext, labels, "none", id)
                           EXCEPT !.pc = "write"])
    /\ UNCHANGED <<subs, emails, events, nextRowId>>
    /\ UnchangedWatch

\* messagesAdded: the update or the insert that follows the select
Mail_Write(w) ==
    /\ run[w].kind \in {"PGH", "PGN"}
    /\ run[w].pc = "write"
    /\ run[w].existing = 0 => nextRowId <= MaxRowId
    /\ \/ /\ SetRun(w, OnItemError(run[w], "store"))
          /\ UNCHANGED <<emails, nextRowId>>
       \/ /\ emails' = UpsertWrite(emails, run[w].existing,
                                    EmailData(run[w].ext, run[w].labels), nextRowId)
          /\ nextRowId' = IF run[w].existing = 0 THEN nextRowId + 1 ELSE nextRowId
          /\ SetRun(w, Applied(run[w], run[w].existing # 0))
    /\ UNCHANGED <<subs, events>>
    /\ UnchangedWatch

\* messagesDeleted: the delete of the rows with that external id
Mail_Delete(w) ==
    /\ run[w].kind \in {"PGH", "PGN"}
    /\ run[w].pc = "apply"
    /\ \/ /\ SetRun(w, OnItemError(run[w], "store"))
          /\ UNCHANGED emails
       \/ \E ext \in Exts :
              /\ emails' = DeleteByExt(emails, ext)
              /\ SetRun(w, Applied(NextChange(run[w], "deleted", ext, {}, "none", 0),
                                    SelectByExt(emails, ext) # {}))
    /\ UNCHANGED <<subs, events, nextRowId>>
    /\ UnchangedWatch

\* labelsAdded / labelsRemoved: the select of the current labels; new_labels is
\* computed from the row read here.  No row: nothing to update, or, where the
\* select is .single() and the client raises on an empty result, the error
\* branch.
Mail_LabelSelect(w) ==
    /\ run[w].kind \in {"PGH", "PGN"}
    /\ run[w].pc = "apply"
    /\ \/ SetRun(w, OnItemError(run[w], "store"))
       \/ \E t \in {"labelsAdded", "labelsRemoved"}, ext \in Exts,
             labelIds \in LabelArgs :
            IF SelectByExt(emails, ext) = {} THEN SetRun(w, Advance(run[w]))
            ELSE \E r \in SelectByExt(emails, ext) :
                SetRun(w, [NextChange(run[w], t, ext,
                                      NewLabels(r.labels, t, labelIds), "none", r.id)
                             EXCEPT !.pc = "label", !.labelIds = labelIds])
    /\ UNCHANGED <<subs, emails, events, nextRowId>>
    /\ UnchangedWatch

\* labelsAdded / labelsRemoved: the update of labels, is_read, is_starred:
\* update_email_labels updates by id, process_gmail_history by external id
Mail_LabelWrite(w) ==
    /\ run[w].kind \in {"PGH", "PGN"}
    /\ run[w].pc = "label"
    /\ \/ /\ SetRun(w, OnItemError(run[w], "store"))
          /\ UNCHANGED emails
       \/ /\ emails' = IF run[w].kind = "PGN"
                        THEN UpdateLabelsById(emails, run[w].existing, run[w].labels)
                        ELSE UpdateLabelsByExt(emails, run[w].ext, run[w].labels)
          /\ SetRun(w, Applied(run[w], TRUE))
    /\ UNCHANGED <<subs, events, nextRowId>>
    /\ UnchangedWatch

\* process_gmail_history, after the loop: .update({'history_id': new_history_id})
\* .eq('user_id', ..).eq('provider', 'gmail').eq('is_active', True)
SetCursorActive(S, p, cursor) ==
    {IF s.provider = p /\ s.is_active THEN [s EXCEPT !.cursor = cursor] ELSE s :
       s \in S}

\* process_*_notification, after the changes: .update({cursor, notification_count:
\* the count read at the start + 1}).eq('id', sub_data['id'])
SetCursorById(S, id, cursor, count) ==
    {IF s.id = id THEN [s EXCEPT !.cursor = cursor, !.notification_count = count]
                  ELSE s : s \in S}

\* new_history_id = data.get('historyId') or result.get('latest_history_id')
NewHistoryId(dataHist, latest) == IF dataHist # NoCursor THEN dataHist ELSE latest

\* process_gmail_history: last_synced update, then the cursor update
PGH_Finish(w) ==
    /\ run[w].kind = "PGH"
    /\ run[w].pc = "finish"
    /\ \/ /\ \E why \in {"last_synced", "cursor"} : SetRun(w, Abort(run[w], why))
          /\ UNCHANGED subs
       \/ /\ subs' = SetCursorActive(subs, "gmail", run[w].latest)
          /\ SetRun(w, Ended(run[w], "ok", "none", TRUE))
    /\ UNCHANGED <<emails, events, nextRowId>>
    /\ UnchangedWatch

\* process_gmail_notification: the subscription update when new_history_id is set
PGN_Finish(w) ==
    /\ run[w].kind = "PGN"
    /\ run[w].pc = "finish"
    /\ \/ /\ \E hist \in {NoCursor} \cup Cursors :
               NewHistoryId(hist, run[w].latest) # NoCursor
          /\ SetRun(w, Abort(run[w], "cursor"))
          /\ UNCHANGED subs
       \/ \E hist \in {NoCursor} \cup Cursors :
            LET new == NewHistoryId(hist, run[w].latest)
            IN  IF new = NoCursor
                THEN /\ SetRun(w, Ended(run[w], "ok", "none", FALSE))
                     /\ UNCHANGED subs
                ELSE /\ subs' = SetCursorById(subs, run[w].sub, new,
                                              run[w].ncount + 1)
                     /\ SetRun(w, Ended(run[w], "ok", "none", TRUE))
    /\ UNCHANGED <<emails, events, nextRowId>>
    /\ UnchangedWatch

\* the function returns: the worker is free again
Return(w) ==
    /\ run[w].pc = "done"
    /\ SetRun(w, IdleRun)
    /\ UNCHANGED <<subs, emails, events, nextRowId>>
    /\ UnchangedWatch

----------------------------------------------------------------------------
(* Calendar reconciliation *)

\* process_calendar_notification(channel_id, resource_state, data)
PCN_Start(w) ==
    /\ run[w].pc = "idle"
    /\ \E state \in {"sync", "exists"}, ch \in 1..nextSubId, sel \in BOOLEAN :
         LET found == {s \in ActiveSubs(subs, "calendar") : s.channel_id = ch}
             new == [IdleRun EXCEPT !.kind = "PCN"]
         IN  IF state = "sync" THEN UNCHANGED run
             ELSE IF ~sel \/ Cardinality(found) # 1
             THEN SetRun(w, Abort(new, "subscription"))
             ELSE \E s \in found :
                    /\ s.notification_count < MaxNotify
                    /\ SetRun(w, [new EXCEPT !.pc = "fetch", !.sub = s.id,
                                             !.start = s.cursor,
                                             !.ncount = s.notification_count])
    /\ UNCHANGED <<subs, emails, events, nextRowId>>
    /\ UnchangedWatch

\* process_calendar_sync: service.events().list(syncToken or time window);
\* 'items' (todo items) and 'nextSyncToken' (latest, NoCursor when absent)
PCN_Fetch(w) ==
    /\ run[w].kind = "PCN"
    /\ run[w].pc = "fetch"
    /\ \/ SetRun(w, Abort(run[w], "list"))
       \/ \E n \in 0..MaxBatch, next \in {NoCursor} \cup Cursors :
         SetRun(w, [run[w] EXCEPT !.pc = IF n > 0 THEN "apply" ELSE "finish",
                                       !.todo = n, !.latest = next])
    /\ UNCHANGED <<subs, emails, events, nextRowId>>
    /\ UnchangedWatch

\* store_calendar_event, status == 'cancelled': delete and return
PCN_Cancel(w) ==
    /\ run[w].kind = "PCN"
    /\ run[w].pc = "apply"
    /\ \/ /\ SetRun(w, OnItemError(run[w], "store"))
          /\ UNCHANGED events
       \/ \E ext \in Exts :
              /\ events' = DeleteByExt(events, ext)
              /\ SetRun(w, Applied(NextChange(run[w], "cancelled", ext, {},
                                               "cancelled", 0),
                                    SelectByExt(events, ext) # {}))
    /\ UNCHANGED <<subs, emails, nextRowId>>
    /\ UnchangedWatch

\* store_calendar_event, any other status: the select of the existing row
PCN_Lookup(w) ==
    /\ run[w].kind = "PCN"
    /\ run[w].pc = "apply"
    /\ \/ SetRun(w, OnItemError(run[w], "store"))
       \/ \E ext \in Exts, status \in Statuses \ {"cancelled"} :
            \E id \in ExistingIds(events, ext) :
              SetRun(w, [NextChange(run[w], "event", ext, {}, status, id)
                           EXCEPT !.pc = "write"])
    /\ UNCHANGED <<subs, emails, events, nextRowId>>
    /\ UnchangedWatch

\* store_calendar_event: the update or the insert that follows the select
PCN_Write(w) ==
    /\ run[w].kind = "PCN"
    /\ run[w].pc = "write"
    /\ run[w].existing = 0 => nextRowId <= MaxRowId
    /\ \/ /\ SetRun(w, OnItemError(run[w], "store"))
          /\ UNCHANGED <<events, nextRowId>>
       \/ /\ events' = UpsertWrite(events, run[w].existing,
                                    EventData(run[w].ext, run[w].status), nextRowId)
          /\ nextRowId' = IF run[w].existing = 0 THEN nextRowId + 1 ELSE nextRowId
          /\ SetRun(w, Applied(run[w], run[w].existing # 0))
    /\ UNCHANGED <<subs, emails>>
    /\ UnchangedWatch

\* process_calendar_notification: the subscription update when next_sync_token is set
PCN_Finish(w) ==
    /\ run[w].kind = "PCN"
    /\ run[w].pc = "finish"
    /\ \/ /\ run[w].latest # NoCursor
          /\ SetRun(w, Abort(run[w], "cursor"))
          /\ UNCHANGED subs
       \/ IF run[w].latest = NoCursor
          THEN /\ SetRun(w, Ended(run[w], "ok", "none", FALSE))
               /\ UNCHANGED subs
          ELSE /\ subs' = SetCursorById(subs, run[w].sub, run[w].latest,
                                        run[w].ncount + 1)
               /\ SetRun(w, Ended(run[w], "ok", "none", TRUE))
    /\ UNCHANGED <<emails, events, nextRowId>>
    /\ UnchangedWatch

----------------------------------------------------------------------------
(* Specifications of the reconciliation *)

\* The store once start_gmail_watch or start_calendar_watch has succeeded for
\* the user: one active subscription, no synced item yet.  Mail runs touch
\* emails and the gmail subscription only, calendar runs calendar_events and
\* the calendar subscription only, so the two kinds are explored from one
\* initial state each.
InitSync ==
    /\ \E p \in Providers : subs = {NewSub(1, p, 1)}
    /\ nextSubId = 2
    /\ lastCall = NoCall
    /\ emails = {}
    /\ events = {}
    /\ nextRowId = 1
    /\ run = [w \in Workers |-> IdleRun]
    /\ users = Users
    /\ taskService = NewTaskService
    /\ taskLog = NoTaskLog
    /\ conns = {TheConn}

\* the history fetch and the added and deleted messages of a mail run
ItemStep(w) ==
    \/ Mail_Fetch(w)
    \/ Mail_Lookup(w)
    \/ Mail_Write(w)
    \/ Mail_Delete(w)

\* a run started by a notification
HookStep(w) ==
    \/ PGN_Start(w)
    \/ ItemStep(w)
    \/ PGN_Finish(w)

\* a run of either entry point
RaceStep(w) ==
    \/ PGH_Start(w)
    \/ PGH_Finish(w)
    \/ HookStep(w)

MailStep(w) ==
    \/ RaceStep(w)
    \/ Mail_LabelSelect(w)
    \/ Mail_LabelWrite(w)
    \/ Return(w)

CalendarStep(w) ==
    \/ PCN_Start(w)
    \/ PCN_Fetch(w)
    \/ PCN_Cancel(w)
    \/ PCN_Lookup(w)
    \/ PCN_Write(w)
    \/ PCN_Finish(w)

\* one run at a time
NextSync == MailStep(1) \/ CalendarStep(1)

SpecSync == InitSync /\ [][NextSync]_vars

----------------------------------------------------------------------------
(* User-initiated email actions (services/email) *)

\* labelIds of the provider's answer to a modify / untrash call, of the two
\* labels the flags are derived from: what the message carried upstream
\* before the call
UpstreamLabels == SUBSET LabelIds

\* The first call of an action that fails: "service" get_gmail_service gives
\* no service, "provider" the provider call raises, "store" the write raises
ActionAnswers == {"none", "service", "provider", "store"}

\* .update(cols).eq('user_id', user_id).eq('external_id', ext)
UpdateColsByExt(T, ext, cols) ==
    {IF r.external_id = ext
     THEN [f \in DOMAIN r |-> IF f \in DOMAIN cols THEN cols[f] ELSE r[f]]
     ELSE r : r \in T}

\* The columns each action writes; U is what the message carried upstream,
\* L the label ids of apply_labels / remove_labels
ActionCols(act, U, L) ==
    CASE act = "mark_as_read" -> [is_read |-> TRUE, labels |-> U \ {"UNREAD"}]
      [] act = "mark_as_unread" -> [is_read |-> FALSE, labels |-> U \cup {"UNREAD"}]
      [] act = "mark_as_starred" -> [is_starred |-> TRUE, labels |-> U \cup {"STARRED"}]
      [] act = "unstar_email" -> [is_starred |-> FALSE, labels |-> U \ {"STARRED"}]
      [] act = "apply_labels" -> [labels |-> U \cup L]
      [] act = "remove_labels" -> [labels |-> U \ L]
      [] act \in {"archive_email", "unarchive_email", "restore_email"} -> [labels |-> U]
      [] act = "trash_email" -> [labels |-> {"TRASH"}]
      [] act = "delete_email" -> [labels |-> {}]

\* The writes an action can make: one per answer of the provider
ActionWrites(act) ==
    {ActionCols(act, U, L) : U \in UpstreamLabels, L \in LabelArgs}

\* One action on the message ext: the provider call, then one write on emails;
\* an action whose service, provider call or write fails has written nothing
EmailAction(act) ==
    /\ \E ext \in Exts, a \in ActionAnswers :
         IF a # "none" THEN emails' = emails
         ELSE IF act = "delete_email" THEN emails' = DeleteByExt(emails, ext)
         ELSE \E cols \in ActionWrites(act) :
                 emails' = UpdateColsByExt(emails, ext, cols)
    /\ UNCHANGED <<subs, events, nextRowId, run>>
    /\ UnchangedWatch

mark_as_read == EmailAction("mark_as_read")

mark_as_unread == EmailAction("mark_as_unread")

mark_as_starred == EmailAction("mark_as_starred")

unstar_email == EmailAction("unstar_email")

apply_labels == EmailAction("apply_labels")

remove_labels == EmailAction("remove_labels")

archive_email == EmailAction("archive_email")

unarchive_email == EmailAction("unarchive_email")

\* delete_email(permanently=False)
trash_email == EmailAction("trash_email")

\* delete_email(permanently=True)
delete_email == EmailAction("delete_email")

restore_email == EmailAction("restore_email")

UserStep ==
    \/ mark_as_read
    \/ mark_as_unread
    \/ mark_as_starred
    \/ unstar_email
    \/ apply_labels
    \/ remove_labels
    \/ archive_email
    \/ unarchive_email
    \/ trash_email
    \/ delete_email
    \/ restore_email

\* The store once start_gmail_watch has succeeded
InitRace ==
    /\ subs = {NewSub(1, "gmail", 1)}
    /\ nextSubId = 2
    /\ lastCall = NoCall
    /\ emails = {}
    /\ events = {}
    /\ nextRowId = 1
    /\ run = [w \in Workers |-> IdleRun]
    /\ users = Users
    /\ taskService = NewTaskService
    /\ taskLog = NoTaskLog
    /\ conns = {TheConn}

\* two mail runs, their provider and store calls interleaved: a run of either
\* entry point on worker 1, a run started by a notification on worker 2
NextRace == RaceStep(1) \/ HookStep(2)

SpecRace == InitRace /\ [][NextRace]_vars

\* One mail reconciliation at a time, the provider free to page the history
NextPages == Mail_FetchPaged(1) \/ MailStep(1)

SpecPages == InitRace /\ [][NextPages]_vars

\* The store once start_gmail_watch has succeeded and earlier emails rows
\* have been created and deleted: one primary key is left within the bound
InitMail ==
    /\ subs = {NewSub(1, "gmail", 1)}
    /\ nextSubId = 2
    /\ lastCall = NoCall
    /\ emails = {}
    /\ events = {}
    /\ nextRowId = MaxRowId
    /\ run = [w \in Workers |-> IdleRun]
    /\ users = Users
    /\ taskService = NewTaskService
    /\ taskLog = NoTaskLog
    /\ conns = {TheConn}

\* One mail reconciliation at a time, and the user's actions at any moment
NextMail == MailStep(1) \/ UserStep

SpecMail == InitMail /\ [][NextMail]_vars

----------------------------------------------------------------------------
(* Webhook receivers (routers/webhooks.py) *)

\* X-Goog-Resource-State: "none" is a missing header
ResourceStates == {"sync", "exists", "not_exists", "none"}

\* X-Goog-Channel-ID, given the ids handed out so far: 0 a missing header,
\* -1 a malformed value, nextId a well-formed uuid no row has, 1..nextId-1 the
\* channel id of a row
ChannelIds(nextId) == (-1)..nextId

\* The first store call of the handler that raises: get_supabase_client, the
\* select of the subscription, the update of the counter; "none": no call raises
HookAnswers == {"none", "client", "sel", "upd"}

\* .update({'notification_count': count + 1, 'last_notification_at': now}).eq('id', id)
CountNotification(S, id) ==
    {IF s.id = id THEN [s EXCEPT !.notification_count = s.notification_count + 1]
                  ELSE s : s \in S}

\* the handler returns a body
Returned(S, status, message, sub) ==
    [subs |-> S, raised |-> FALSE, status |-> status, message |-> message, sub |-> sub]

\* an exception leaves the body of the try
Raised(S) ==
    [subs |-> S, raised |-> TRUE, status |-> "none", message |-> "none", sub |-> 0]

HookBody_CountFirst(S, p, ch, state, a, row) ==
    IF state # "exists" THEN Returned(CountNotification(S, row.id), "ok", "Sync verified", 0)
    ELSE IF a \in {"client", "sel"} THEN Raised(S)
    ELSE IF {s \in ActiveSubs(S, p) : s.channel_id = ch} = {}
    THEN Returned(S, "ok", "No active subscription", 0)
    ELSE IF a = "upd" THEN Raised(S)
    ELSE Returned(CountNotification(S, row.id), "ok", "Notification received", row.id)

\* The body of the try of gmail_webhook / calendar_webhook: the table afterwards,
\* what it returns or that it raised, and the subscription it matched (0: none).
\* row is subscription.data[0].
HookBody(S, p, ch, state, a, row) ==
    IF state = "sync" THEN Returned(S, "ok", "Sync verified", 0)
    ELSE IF state # "exists" THEN Returned(S, "ok", "Notification received", 0)
    ELSE IF a \in {"client", "sel"} THEN Raised(S)
    ELSE IF {s \in ActiveSubs(S, p) : s.channel_id = ch} = {}
    THEN Returned(S, "ok", "No active subscription", 0)
    ELSE IF a = "upd" THEN Raised(S)
    ELSE Returned(CountNotification(S, row.id), "ok", "Notification received", row.id)

CatchAll_Reraise(r) == r

\* except Exception as e: return {"status": "error", "message": str(e)}
CatchAll(r) ==
    IF r.raised THEN Returned(r.subs, "error", "exception", 0) ELSE r

\* the status code of the response: 200 for a returned body, 500 for an
\* exception that leaves the handler
HttpStatus(r) == IF r.raised THEN 500 ELSE 200

\* The hand-off after the counter update: the handler logs "queued for
\* processing"; it starts no run and puts nothing on a queue.
HandOff(R, sub) == R

\* data[0] of the select by channel id: any matching row, a placeholder when none
MatchedRows(S, p, ch) ==
    IF {s \in ActiveSubs(S, p) : s.channel_id = ch} = {}
    THEN {NewSub(0, p, NoCursor)}
    ELSE {s \in ActiveSubs(S, p) : s.channel_id = ch}

HookClient_ServiceRole(state, a) ==
    IF state = "exists" /\ a # "client" THEN "service_role" ELSE "none"

\* supabase = get_supabase_client(), reached for the state "exists" only
HookClient(state, a) ==
    IF state = "exists" /\ a # "client" THEN "anon" ELSE "none"

Webhook(p) ==
    /\ \E ch \in ChannelIds(nextSubId), state \in ResourceStates, a \in HookAnswers :
         \E row \in MatchedRows(subs, p, ch) :
           LET r == CatchAll(HookBody(subs, p, ch, state, a, row))
           IN  /\ row.notification_count < MaxNotify
               /\ subs' = r.subs
               /\ run' = HandOff(run, r.sub)
               /\ lastCall' = [op |-> "webhook", provider |-> p, res |-> r.status,
                               http |-> HttpStatus(r), state |-> state, sub |-> r.sub,
                               client |-> HookClient(state, a), channel |-> ch]
    /\ UNCHANGED <<nextSubId, emails, events, nextRowId, conns, users,
      taskService, taskLog>>

gmail_webhook == Webhook("gmail")

calendar_webhook == Webhook("calendar")

\* The store once start_gmail_watch and start_calendar_watch have succeeded
InitHook ==
    /\ subs = {NewSub(1, "gmail", 1), NewSub(2, "calendar", 1)}
    /\ nextSubId = 3
    /\ lastCall = NoCall
    /\ emails = {}
    /\ events = {}
    /\ nextRowId = 1
    /\ run = [w \in Workers |-> IdleRun]
    /\ users = Users
    /\ taskService = NewTaskService
    /\ taskLog = NoTaskLog
    /\ conns = {TheConn}

\* The provider's notifications, and the stop calls that make a channel id
\* one of an inactive subscription, one call at a time
NextHook ==
    \/ gmail_webhook
    \/ calendar_webhook
    \/ stop_gmail_watch
    \/ stop_calendar_watch

SpecHook == InitHook /\ [][NextHook]_vars

----------------------------------------------------------------------------
(* Expiring subscriptions and the scheduled jobs (routers/cron.py) *)

\* datetime.now(timezone.utc) is an input of each call, drawn from
\* 0..MaxClock.
Clock == 0..MaxClock
\* the thresholds callers pass, in hours
Thresholds == {1, DayHours}
\* The expiration column of the rows in the store: two hours, one day, and
\* one day and an hour after time 0
ExpiryTimes == {2 * HourMinutes, DayHours * HourMinutes, (DayHours + 1) * HourMinutes}

\* A row whose watch was started earlier or later than time 0
WithExpiration(s, e) == [s EXCEPT !.expiration = e]

\* threshold_time = datetime.now(timezone.utc) + timedelta(hours=hours_threshold)
ThresholdTime(now, h) == now + h * HourMinutes

\* .eq('is_active', True).lt('expiration', threshold_time.isoformat()) without
\* the is_active filter
ExpiringQuery_AnyRow(S, threshold) == {s \in S : s.expiration < threshold}

\* .eq('is_active', True).lt('expiration', threshold_time.isoformat());
\* every row has its ext_connections row, so the inner join drops none
ExpiringQuery(S, threshold) ==
    {s \in S : s.is_active /\ s.expiration < threshold}

\* get_expiring_subscriptions(hours_threshold): result.data, or [] when the
\* client or the query raises
GetExpiring(S, now, h, a) ==
    IF a = "none" THEN ExpiringQuery(S, ThresholdTime(now, h)) ELSE {}

UnchangedStore ==
    UNCHANGED <<subs, nextSubId, emails, events, nextRowId, run, conns, users,
      taskService, taskLog>>

get_expiring_subscriptions ==
    \E now \in Clock, h \in Thresholds, a \in {"none", "error"} :
        /\ lastCall' = [op |-> "get_expiring", provider |-> "none",
                        res |-> IF a = "none" THEN "ok" ELSE "empty",
                        now |-> now, h |-> h,
                        rows |-> GetExpiring(subs, now, h, a),
                        client |-> "anon"]
        /\ UnchangedStore

\* push_subscriptions as earlier start, renew and stop calls left it: every
\* row of either kind, active or stopped, with its expiration
CronRows(id) ==
    {WithExpiration([NewSub(id, p, 1) EXCEPT !.is_active = act], e) :
        p \in Providers, act \in BOOLEAN, e \in ExpiryTimes}

InitCron ==
    /\ \E f \in [1..MaxSubs -> BOOLEAN] :
         \E g \in [{i \in 1..MaxSubs : f[i]} -> UNION {CronRows(i) : i \in 1..MaxSubs}] :
            /\ \A i \in DOMAIN g : g[i].id = i
            /\ subs = {g[i] : i \in DOMAIN g}
    /\ nextSubId = MaxSubs + 1
    /\ lastCall = NoCall
    /\ emails = {}
    /\ events = {}
    /\ nextRowId = 1
    /\ run = [w \in Workers |-> IdleRun]
    /\ users = Users
    /\ taskService = NewTaskService
    /\ taskLog = NoTaskLog
    /\ \E token \in {0, 1} : conns = {[TheConn EXCEPT !.access_token = token]}

\* Header(None): the Authorization header is absent
NoHeader == [present |-> FALSE, value |-> ""]

AuthHeader(v) == [present |-> TRUE, value |-> v]

\* os.getenv('CRON_SECRET', '')
Secrets == {"s1", ""}

\* os.getenv('API_ENV', 'development')
ApiEnvs == {"development", "production"}

Request(authorization, env, secret) ==
    [authorization |-> authorization, env |-> env, secret |-> secret]

\* The requests to a scheduled-job route, with the environment they meet:
\* without the header, with the right and with a wrong secret, in both
\* modes, and with CRON_SECRET unset
Requests ==
    {Request(NoHeader, env, "s1") : env \in ApiEnvs}
      \cup {Request(AuthHeader("Bearer s1"), "production", secret) : secret \in Secrets}
      \cup {Request(AuthHeader("Bearer s2"), env, "s1") : env \in ApiEnvs}
      \cup {Request(AuthHeader("Bearer "), "production", "")}

\* The scheduler's own requests in production, and one without the header
SchedulerRequests ==
    {Request(h, "production", "s1") : h \in {NoHeader, AuthHeader("Bearer s1")}}

\* verify_cron_auth without the comparison against the secret
VerifyCronAuth_AnyHeader(authorization, env, secret) ==
    authorization.present /\ authorization.value # ""

\* verify_cron_auth
VerifyCronAuth(authorization, env, secret) ==
    IF ~authorization.present \/ authorization.value = "" THEN FALSE
    ELSE IF env = "development" THEN TRUE
    ELSE authorization.value = "Bearer " \o secret

Accepted(req) == VerifyCronAuth(req.authorization, req.env, req.secret)

\* The answers met at the start of a handler, as the first call that fails:
\* "client" get_service_role_client, "sel" the first select.  A rejected
\* request reaches neither.
JobAnswers(req) == IF Accepted(req) THEN {"none", "client", "sel"} ELSE {"none"}

\* raise HTTPException(status_code=401) before the try block of a handler
Unauthorized(job, req) ==
    [op |-> job, provider |-> "none", res |-> "unauthorized", http |-> 401,
     req |-> req, client |-> "none", reads |-> {}]

\* The outer except of a handler: get_service_role_client or the first select
\* raised
JobFailed(job, req, top) ==
    [op |-> job, provider |-> "none", res |-> "failed", http |-> 500,
     req |-> req, client |-> IF top = "client" THEN "none" ELSE "service_role",
     reads |-> {}]

\* .eq('provider', 'google').eq('is_active', True)
ActiveGoogle(C) == {c \in C : c.is_active}

\* get_google_services_for_user: the connection id, or 0 for
\* (None, None, None).  .single() raises unless exactly one row matches; the
\* stored access token is used as it is.
GoogleServicesForUser(C, user, a) ==
    LET rows == {c \in C : c.user_id = user /\ c.is_active}
    IN  IF a = "svc" \/ Cardinality(rows) # 1 THEN 0
        ELSE LET c == CHOOSE c \in rows : TRUE
             IN  IF c.access_token = 0 THEN 0 ELSE c.id

\* sub['ext_connections']['user_id']: every push_subscriptions row of the
\* model belongs to the user of TheConn
SubUser(s) == TheConn.user_id

\* The branch of cron_renew_watches taken once the services are built: it
\* logs "Watch renewal completed" and counts; it calls neither renew_watch nor
\* start_gmail_watch / start_calendar_watch
RenewCalls(s) == {}

\* GET /api/cron/renew-watches
cron_renew_watches(Reqs) ==
    \E req \in Reqs : \E now \in Clock, top \in JobAnswers(req) :
        /\ UnchangedStore
        /\ IF ~Accepted(req)
           THEN lastCall' = Unauthorized("renew-watches", req)
           ELSE IF top # "none"
           THEN lastCall' = JobFailed("renew-watches", req, top)
           ELSE \E F \in SUBSET {s.id : s \in subs} :
                LET expiring == ExpiringQuery(subs, ThresholdTime(now, DayHours))
                    served == {s \in expiring :
                                 /\ s.id \notin F
                                 /\ GoogleServicesForUser(conns, SubUser(s), "none") # 0}
                IN  lastCall' =
                      [op |-> "renew-watches", provider |-> "none",
                       res |-> "completed", http |-> 200, req |-> req,
                       client |-> "service_role",
                       reads |-> {"push_subscriptions", "ext_connections"},
                       now |-> now,
                       expiring |-> {s.id : s \in expiring},
                       renewed |-> {s.id : s \in served},
                       errors |-> {s.id : s \in expiring \ served},
                       calls |-> UNION {RenewCalls(s) : s \in served}]

\* The answers met while one connection is handled in a sweep, as the first
\* call that fails: "svc" the select of get_google_services_for_user,
\* "upd" the update of last_synced
ConnAnswers(C) == [{c.id : c \in ActiveGoogle(C)} -> {"none", "svc", "upd"}]

\* timedelta(minutes=10)
RecentMinutes == 10

\* datetime.now(timezone.utc) - last_sync_dt < timedelta(minutes=10)
SyncedRecently(c, now) == \E t \in c.last_synced : now - t < RecentMinutes

\* .update({'last_synced': now}).eq('id', id)
SetLastSynced(C, ids, now) ==
    {IF c.id \in ids THEN [c EXCEPT !.last_synced = {now}] ELSE c : c \in C}

\* The reconciliations a sweep runs for one connection once its services are
\* built: the sync blocks of cron_incremental_sync set synced_gmail /
\* synced_calendar and log, those of cron_daily_verification log; neither
\* calls process_gmail_history, a full sync or any provider method
SyncCalls(c) == {}

\* What a completed sweep over ext_connections returns; reconciled: the
\* connections a reconciliation was run for
Completed(job, req, now, done, skipped, errors) ==
    [op |-> job, provider |-> "none", res |-> "completed", http |-> 200,
     req |-> req, client |-> "service_role",
     reads |-> {"ext_connections"}, now |-> now,
     done |-> done, skipped |-> skipped, errors |-> errors,
     reconciled |-> {}]

\* GET /api/cron/incremental-sync.  The two sync blocks only set
\* synced_gmail / synced_calendar; last_synced is written by the id
\* get_google_services_for_user returned
cron_incremental_sync(Reqs) ==
    \E req \in Reqs : \E now \in Clock, top \in JobAnswers(req) :
        /\ UNCHANGED <<subs, nextSubId, emails, events, nextRowId, run, users,
                     taskService, taskLog>>
        /\ IF ~Accepted(req)
           THEN /\ lastCall' = Unauthorized("incremental-sync", req)
                /\ UNCHANGED conns
           ELSE IF top # "none"
           THEN /\ lastCall' = JobFailed("incremental-sync", req, top)
                /\ UNCHANGED conns
           ELSE \E a \in ConnAnswers(conns) :
                LET due == {c \in ActiveGoogle(conns) : ~SyncedRecently(c, now)}
                    svc(c) == GoogleServicesForUser(conns, c.user_id, a[c.id])
                    served == {c \in due : svc(c) # 0}
                    synced == {c \in served : a[c.id] # "upd"}
                IN  /\ conns' = SetLastSynced(conns, {svc(c) : c \in synced}, now)
                    /\ lastCall' =
                          [Completed("incremental-sync", req, now,
                                     {c.id : c \in synced},
                                     {c.id : c \in ActiveGoogle(conns) \ served},
                                     {c.id : c \in served \ synced})
                           EXCEPT !.reconciled =
                                    {c.id : c \in {c \in served : SyncCalls(c) # {}}}]

\* .eq('user_id', user).eq('provider', p).eq('is_active', True) on
\* push_subscriptions
UserWatch(S, user, p) == {s \in ActiveSubs(S, p) : SubUser(s) = user}

\* GET /api/cron/setup-missing-watches: it counts the users that lack a
\* watch and sets none up
cron_setup_missing_watches(Reqs) ==
    \E req \in Reqs : \E now \in Clock, top \in JobAnswers(req) :
        /\ UnchangedStore
        /\ IF ~Accepted(req)
           THEN lastCall' = Unauthorized("setup-missing-watches", req)
           ELSE IF top # "none"
           THEN lastCall' = JobFailed("setup-missing-watches", req, top)
           ELSE \E a \in ConnAnswers(conns) :
                LET needs == {c \in ActiveGoogle(conns) :
                                \/ UserWatch(subs, c.user_id, "gmail") = {}
                                \/ UserWatch(subs, c.user_id, "calendar") = {}}
                    served == {c \in needs :
                                 GoogleServicesForUser(conns, c.user_id, a[c.id]) # 0}
                IN  lastCall' =
                      [Completed("setup-missing-watches", req, now,
                                 {c.id : c \in served},
                                 {c.id : c \in ActiveGoogle(conns) \ needs},
                                 {c.id : c \in needs \ served})
                       EXCEPT !.reads = {"ext_connections", "push_subscriptions"}]

\* last_synced is None or earlier than now - timedelta(hours=24)
Stale(c, now) ==
    \/ c.last_synced = NoTime
    \/ \E t \in c.last_synced : t < now - DayHours * HourMinutes

\* GET /api/cron/daily-verification: nothing is synced; last_synced of each
\* stale connection whose services can be built is set to now
cron_daily_verification(Reqs) ==
    \E req \in Reqs : \E now \in Clock, top \in JobAnswers(req) :
        /\ UNCHANGED <<subs, nextSubId, emails, events, nextRowId, run, users,
                     taskService, taskLog>>
        /\ IF ~Accepted(req)
           THEN /\ lastCall' = Unauthorized("daily-verification", req)
                /\ UNCHANGED conns
           ELSE IF top # "none"
           THEN /\ lastCall' = JobFailed("daily-verification", req, top)
                /\ UNCHANGED conns
           ELSE \E a \in ConnAnswers(conns) :
                LET stale == {c \in ActiveGoogle(conns) : Stale(c, now)}
                    served == {c \in stale :
                                 GoogleServicesForUser(conns, c.user_id, a[c.id]) # 0}
                    verified == {c \in served : a[c.id] # "upd"}
                IN  /\ conns' = SetLastSynced(conns, {c.id : c \in verified}, now)
                    /\ lastCall' =
                          [Completed("daily-verification", req, now,
                                     {c.id : c \in verified},
                                     {c.id : c \in ActiveGoogle(conns) \ stale},
                                     {c.id : c \in stale \ verified})
                           EXCEPT !.reconciled =
                                    {c.id : c \in {c \in served : SyncCalls(c) # {}}}]

\* The scheduler, one request at a time, and the query of the watch manager
NextCron ==
    \/ get_expiring_subscriptions
    \/ cron_renew_watches(SchedulerRequests)

SpecCron == InitCron /\ [][NextCron]_vars

Jobs ==
    {"incremental-sync", "renew-watches", "setup-missing-watches",
     "daily-verification"}

\* last_synced as earlier sweeps left it: never, a day before time 0, nine
\* minutes before time 0
LastSynced == {NoTime, {-(DayHours * HourMinutes)}, {1 - RecentMinutes}}

\* ext_connections of two users: the first has a connection, revoked or not,
\* with or without a stored access token; the second has none or an active one
InitJobs ==
    /\ subs = {WithExpiration(NewSub(1, "gmail", 1), 2 * HourMinutes)}
    /\ nextSubId = 2
    /\ lastCall = NoCall
    /\ emails = {}
    /\ events = {}
    /\ nextRowId = 1
    /\ run = [w \in Workers |-> IdleRun]
    /\ users = Users
    /\ taskService = NewTaskService
    /\ taskLog = NoTaskLog
    /\ \E act \in BOOLEAN, token \in {0, 1}, l1 \in LastSynced,
          two \in BOOLEAN, l2 \in LastSynced :
          conns = {[TheConn EXCEPT !.is_active = act, !.access_token = token,
                                   !.last_synced = l1]}
                  \cup {[NewConn(2, "u2", "a2", 1, TRUE, NoTime)
                          EXCEPT !.last_synced = l2] : x \in {y \in {1} : two}}

NextJobsOf(Reqs) ==
    \/ cron_incremental_sync(Reqs)
    \/ cron_renew_watches(Reqs)
    \/ cron_setup_missing_watches(Reqs)
    \/ cron_daily_verification(Reqs)

\* Any request to the four scheduled-job routes, one at a time
NextJobs == NextJobsOf(Requests)

SpecJobs == InitJobs /\ [][NextJobs]_vars

\* One accepted and one rejected request of the scheduler
AccessRequests ==
    {Request(AuthHeader(v), "production", "s1") : v \in {"Bearer s1", "Bearer s2"}}

\* The store once start_gmail_watch and start_calendar_watch have succeeded
InitAccess ==
    /\ subs = {NewSub(1, "gmail", 1), NewSub(2, "calendar", 1)}
    /\ nextSubId = 3
    /\ lastCall = NoCall
    /\ emails = {}
    /\ events = {}
    /\ nextRowId = 1
    /\ run = [w \in Workers |-> IdleRun]
    /\ users = Users
    /\ taskService = NewTaskService
    /\ taskLog = NoTaskLog
    /\ conns = {TheConn}

\* Entry points of each kind that obtains a store client, one call at a
\* time: the scheduled jobs, the provider's webhooks, the user's stop calls
\* and the query for expiring subscriptions
NextAccess ==
    \/ NextJobsOf(AccessRequests)
    \/ gmail_webhook
    \/ calendar_webhook
    \/ stop_gmail_watch
    \/ stop_calendar_watch
    \/ get_expiring_subscriptions

SpecAccess == InitAccess /\ [][NextAccess]_vars

----------------------------------------------------------------------------
(* POST /api/sync/ensure-watches (routers/sync.py) *)

\* .eq('user_id', ..).eq('is_active', True).gte('expiration', now), the rows
\* of one provider
ValidWatches(S, user, p, now) ==
    {s \in UserWatch(S, user, p) : s.expiration >= now}

\* existing_watches.get(p): a row of that provider the select returned, the
\* last one in its order; a placeholder with id 0 for None
ExistingWatch(S, user, p, now) ==
    IF ValidWatches(S, user, p, now) = {} THEN {NewSub(0, p, NoCursor)}
    ELSE ValidWatches(S, user, p, now)

\* needs_setup.append(p): no watch, or hours_until_expiry < 24
NeedsSetup(w, now) ==
    w.id = 0 \/ w.expiration - now < DayHours * HourMinutes

\* setup_watches_for_user: start_gmail_watch, then start_calendar_watch, each
\* in its own try; ag, ac are the answers during each start, rg, rc the row
\* each start reads as data[0]
SetupWatchesForUser(S, ag, rg, ac, rc, id) ==
    LET G == StartWatch(S, "gmail", rg, ag, id)
        id2 == IF G.res = "success" THEN id + 1 ELSE id
        C == StartWatch(G.subs, "calendar", rc, ac, id2)
    IN  [subs |-> C.subs, gmail |-> G.res, calendar |-> C.res,
         next |-> IF C.res = "success" THEN id2 + 1 ELSE id2]

\* status of the response after a setup
SetupStatus(r) ==
    IF r.gmail = "success" /\ r.calendar = "success" THEN "setup_completed"
    ELSE IF r.gmail = "success" \/ r.calendar = "success" THEN "partial_setup"
    ELSE "setup_failed"

\* The first of the two selects of ensure_watches that raises
EnsureAnswers == {"none", "connection", "watches"}

\* The answers during one start of a setup: those of StartAnswers with the
\* first cursor value, and a stop that succeeds, that the provider refuses
\* (HttpError, logged) or whose update fails
SetupAnswers(p) ==
    {a \in StartAnswers(p) :
        a.cursor \in {NoCursor, 1} /\ a.stop \in {"none", "http", "upd"}}

EnsureCall(user, now, status, needs) ==
    [op |-> "ensure", provider |-> "none", res |-> status, user |-> user,
     now |-> now, needs |-> needs, client |-> WatchClient]

ensure_watches ==
    /\ nextSubId <= MaxSubs + 1
    /\ \E user \in Users, now \in Clock, e \in EnsureAnswers :
         IF e # "none"
         THEN /\ lastCall' = EnsureCall(user, now, "error", {})
              /\ UNCHANGED <<subs, nextSubId>>
         ELSE IF {c \in ActiveGoogle(conns) : c.user_id = user} = {}
         THEN /\ lastCall' = EnsureCall(user, now, "no_connection", {})
              /\ UNCHANGED <<subs, nextSubId>>
         ELSE \E g \in ExistingWatch(subs, user, "gmail", now),
                 c \in ExistingWatch(subs, user, "calendar", now) :
                LET needs == {w.provider : w \in {w \in {g, c} : NeedsSetup(w, now)}}
                IN  IF needs = {}
                    THEN /\ lastCall' = EnsureCall(user, now, "all_active", needs)
                         /\ UNCHANGED <<subs, nextSubId>>
                    ELSE \E ag \in SetupAnswers("gmail"), ac \in SetupAnswers("calendar"),
                            rg \in FirstRows(subs, "gmail"),
                            rc \in FirstRows(subs, "calendar") :
                           LET r == SetupWatchesForUser(subs, ag, rg, ac, rc, nextSubId)
                           IN  /\ subs' = r.subs
                               /\ nextSubId' = r.next
                               /\ lastCall' = EnsureCall(user, now, SetupStatus(r), needs)
    /\ UnchangedSync

\* push_subscriptions of the user as earlier calls left it: at most one row
\* of each kind, with its expiration
InitEnsure ==
    /\ \E G \in SUBSET {"gmail"}, C \in SUBSET {"calendar"} :
         \E eg, ec \in ExpiryTimes :
            subs = {WithExpiration(NewSub(1, p, 1), eg) : p \in G}
                     \cup {WithExpiration(NewSub(2, p, 1), ec) : p \in C}
    /\ nextSubId = 3
    /\ lastCall = NoCall
    /\ emails = {}
    /\ events = {}
    /\ nextRowId = 1
    /\ run = [w \in Workers |-> IdleRun]
    /\ users = Users
    /\ taskService = NewTaskService
    /\ taskLog = NoTaskLog
    /\ conns = {TheConn}

\* Logins of the user, and the stop calls of /api/sync/stop-watches
NextEnsure ==
    \/ ensure_watches
    \/ stop_gmail_watch
    \/ stop_calendar_watch

SpecEnsure == InitEnsure /\ [][NextEnsure]_vars

----------------------------------------------------------------------------
(* Access credentials (google_api_helpers.py, notification_processor.py) *)

\* timedelta(minutes=5)
TokenMargin == 5
\* timedelta(seconds=3600), in minutes
TokenLifetime == 60

\* token_expires_at as stored: none, past, five and six minutes and an hour
\* after time 0
TokenExpiries == {NoTime, {-1}, {TokenMargin}, {TokenMargin + 1}, {TokenLifetime}}

\* What the refresh meets, as the first call that fails: "exchange"
\* credentials.refresh raises, "upd" the update of ext_connections raises
RefreshAnswers == {"none", "exchange", "upd"}

\* credentials.token after credentials.refresh: a token the store has not seen
FreshToken(C) ==
    1 + (CHOOSE n \in {0} \cup {c.access_token : c \in C} :
            \A c \in C : c.access_token <= n)

\* .update({'access_token': token, 'token_expires_at': now + 3600 s})
\*  .eq('user_id', user).eq('provider', 'google')
StoreToken(C, user, token, now) ==
    {IF c.user_id = user
     THEN [c EXCEPT !.access_token = token,
                    !.token_expires_at = {now + TokenLifetime}]
     ELSE c : c \in C}

\* _refresh_google_token_if_needed(connection_data): the access token it
\* returns (0: None) and ext_connections afterwards
RefreshIfNeeded(C, c, now, a) ==
    IF c.token_expires_at = NoTime
    THEN [token |-> c.access_token, conns |-> C]
    ELSE IF \E t \in c.token_expires_at : t > now + TokenMargin
    THEN [token |-> c.access_token, conns |-> C]
    ELSE IF ~c.refresh_token \/ a \in {"exchange", "upd"}
    THEN [token |-> 0, conns |-> C]
    ELSE [token |-> FreshToken(C), conns |-> StoreToken(C, c.user_id, FreshToken(C), now)]

\* get_gmail_service / get_google_calendar_service: .single() raises unless
\* exactly one active row matches, and every exception gives (None, None)
GetService(C, user, now, a) ==
    LET rows == {c \in C : c.user_id = user /\ c.is_active}
    IN  IF a = "sel" \/ Cardinality(rows) # 1 THEN [token |-> 0, conns |-> C]
        ELSE RefreshIfNeeded(C, CHOOSE c \in rows : TRUE, now, a)

\* A function that obtains its service from get_gmail_service or
\* get_google_calendar_service and, given one, calls the provider
service_call ==
    \E p \in Providers, c \in conns, now \in Clock,
       a \in RefreshAnswers \cup {"sel"} :
        LET r == GetService(conns, c.user_id, now, a)
        IN  /\ conns' = r.conns
            /\ lastCall' = [op |-> "service_call", provider |-> p,
                            res |-> IF r.token = 0 THEN "no_service" ELSE "called",
                            now |-> now, called |-> r.token # 0,
                            token |-> r.token]
            /\ UNCHANGED <<subs, nextSubId, emails, events, nextRowId, run, users,
                     taskService, taskLog>>

\* process_gmail_history_changes / process_calendar_sync up to their first
\* provider call: the row is selected by its id and Credentials is built from
\* the stored access_token and refresh_token, without token_expires_at
notification_call ==
    \E p \in Providers, c \in conns, now \in Clock, a \in {"none", "sel"} :
        /\ lastCall' = [op |-> "notification_call", provider |-> p,
                        res |-> IF a = "sel" THEN "error" ELSE "called",
                        now |-> now, called |-> a # "sel",
                        token |-> IF a = "sel" THEN 0 ELSE c.access_token]
        /\ UnchangedStore

\* One user's connection, revoked or not, with or without a refresh token
InitToken ==
    /\ subs = {NewSub(1, "gmail", 1), NewSub(2, "calendar", 1)}
    /\ nextSubId = 3
    /\ lastCall = NoCall
    /\ emails = {}
    /\ events = {}
    /\ nextRowId = 1
    /\ run = [w \in Workers |-> IdleRun]
    /\ users = Users
    /\ taskService = NewTaskService
    /\ taskLog = NoTaskLog
    /\ \E act \in BOOLEAN, refresh \in BOOLEAN, expires \in TokenExpiries :
          conns = {[NewConn(1, "u1", "a1", 1, refresh, expires)
                    EXCEPT !.is_active = act]}

NextToken ==
    \/ service_call
    \/ notification_call

SpecToken == InitToken /\ [][NextToken]_vars

----------------------------------------------------------------------------
(* OAuth connections (services/auth.py) *)

\* .eq('user_id', u).eq('provider', 'google').eq('provider_user_id', account)
ExistingConn(C, user, account) ==
    {c \in C : c.user_id = user /\ c.provider_user_id = account}

\* the id the store gives an inserted row; rows are never deleted
NextConnId(C) == Cardinality(C) + 1

\* if existing.data: update(data).eq('id', existing.data[0]['id'])
\* else: insert(data).  data carries is_active True and no last_synced.
SaveConnection(C, user, account, token, refresh, expires) ==
    LET existing == ExistingConn(C, user, account)
        data == NewConn(0, user, account, token, refresh, expires)
    IN  IF existing # {}
        THEN LET id == (CHOOSE c \in existing : TRUE).id
             IN  {IF c.id = id
                  THEN [data EXCEPT !.id = c.id, !.last_synced = c.last_synced]
                  ELSE c : c \in C}
        ELSE C \cup {[data EXCEPT !.id = NextConnId(C)]}

\* What a call meets, as the first store call that raises: "user" a call on
\* users, "sel" the select on ext_connections, "write" its insert or update
AuthAnswers == {"none", "user", "sel", "write"}

\* connection_data.get('access_token'), get('token_expires_at'): the tokens
\* of one OAuth exchange, the expiry the provider's or missing; a refresh
\* token comes with each
OAuthTokens == {1, 2}
OAuthExpiries == {NoTime, {TokenLifetime}}

\* AuthService.create_oauth_connection(connection_data)
create_oauth_connection ==
    \E user \in Users, account \in Accounts, token \in OAuthTokens,
       expires \in OAuthExpiries, a \in AuthAnswers \ {"user"} :
        /\ Cardinality(conns) < MaxConns \/ ExistingConn(conns, user, account) # {}
        /\ conns' = IF a = "none"
                    THEN SaveConnection(conns, user, account, token, TRUE, expires)
                    ELSE conns
        /\ lastCall' = [op |-> "create_oauth_connection", provider |-> "google",
                        res |-> IF a = "none" THEN "saved" ELSE "error",
                        user |-> user, account |-> account]
        /\ UNCHANGED <<subs, nextSubId, emails, events, nextRowId, run, users,
                     taskService, taskLog>>

\* token_expires_at of complete_oauth_flow: now + timedelta(hours=1) when the
\* caller gave none and there is an access token
DefaultExpiry(expires, now) ==
    IF expires = NoTime THEN {now + HourMinutes} ELSE expires

\* AuthService.complete_oauth_flow(oauth_data, user_jwt): the users row is
\* inserted or updated first, then the connection is saved
complete_oauth_flow ==
    \E user \in Users, account \in Accounts, token \in OAuthTokens,
       expires \in OAuthExpiries, now \in Clock, a \in AuthAnswers :
        /\ Cardinality(conns) < MaxConns \/ ExistingConn(conns, user, account) # {}
        /\ users' = IF a = "user" THEN users ELSE users \cup {user}
        /\ conns' = IF a = "none"
                    THEN SaveConnection(conns, user, account, token, TRUE,
                                        DefaultExpiry(expires, now))
                    ELSE conns
        /\ lastCall' = [op |-> "complete_oauth_flow", provider |-> "google",
                        res |-> IF a = "none" THEN "completed" ELSE "error",
                        user |-> user, account |-> account]
        /\ UNCHANGED <<subs, nextSubId, emails, events, nextRowId, run,
                     taskService, taskLog>>

\* .update({'is_active': False}).eq('id', connection_id)
Revoke(C, id) ==
    {IF c.id = id THEN [c EXCEPT !.is_active = FALSE] ELSE c : c \in C}

\* AuthService.revoke_connection(connection_id): False when no row has the id
revoke_connection ==
    \E id \in 1..MaxConns, a \in {"none", "write"} :
        /\ conns' = IF a = "none" THEN Revoke(conns, id) ELSE conns
        /\ lastCall' = [op |-> "revoke_connection", provider |-> "google",
                        res |-> IF a # "none" THEN "error"
                                ELSE IF \E c \in conns : c.id = id THEN "revoked"
                                ELSE "not_found",
                        id |-> id]
        /\ UNCHANGED <<subs, nextSubId, emails, events, nextRowId, run, users,
                     taskService, taskLog>>

\* An empty store
InitAuth ==
    /\ subs = {}
    /\ nextSubId = 1
    /\ lastCall = NoCall
    /\ emails = {}
    /\ events = {}
    /\ nextRowId = 1
    /\ run = [w \in Workers |-> IdleRun]
    /\ users = {}
    /\ taskService = NewTaskService
    /\ taskLog = NoTaskLog
    /\ conns = {}

\* The calls of the auth service, one at a time
NextAuth ==
    \/ create_oauth_connection
    \/ complete_oauth_flow
    \/ revoke_connection

SpecAuth == InitAuth /\ [][NextAuth]_vars

----------------------------------------------------------------------------
(* start_gmail_watch / start_calendar_watch one store or provider call at a *)
(* time, so that two calls can interleave.  kind is "SGW" or "SCW"; existing *)
(* is the row the stop read, latest the cursor of the watch response.       *)

StartKinds == {"SGW", "SCW"}

StartProvider(r) == IF r.kind = "SGW" THEN "gmail" ELSE "calendar"

\* get_gmail_service / get_google_calendar_service: ValueError without one
SW_Start(w) ==
    /\ run[w].pc = "idle"
    /\ \E kind \in StartKinds, conn \in BOOLEAN :
         SetRun(w, IF ~conn THEN Abort([IdleRun EXCEPT !.kind = kind], "connection")
                   ELSE [IdleRun EXCEPT !.kind = kind, !.pc = "select"])
    /\ UNCHANGED <<subs, emails, events, nextRowId>>
    /\ UnchangedWatch

\* existing = select of the active rows of the provider; if existing.data
SW_Select(w) ==
    /\ run[w].kind \in StartKinds
    /\ run[w].pc = "select"
    /\ \/ SetRun(w, Abort(run[w], "sel"))
       \/ SetRun(w, [run[w] EXCEPT
                       !.pc = IF ActiveSubs(subs, StartProvider(run[w])) = {}
                              THEN "watch" ELSE "stop"])
    /\ UNCHANGED <<subs, emails, events, nextRowId>>
    /\ UnchangedWatch

\* stop_*_watch: its own select of the active rows; whatever the stop raises
\* is logged by start, which goes on
SW_StopSelect(w) ==
    /\ run[w].kind \in StartKinds
    /\ run[w].pc = "stop"
    /\ \/ SetRun(w, [run[w] EXCEPT !.pc = "watch", !.failed = TRUE])
       \/ \E row \in FirstRows(subs, StartProvider(run[w])) :
            SetRun(w, [run[w] EXCEPT !.existing = row.id,
                                     !.pc = IF row.id = 0 THEN "watch" ELSE "stop_update"])
    /\ UNCHANGED <<subs, emails, events, nextRowId>>
    /\ UnchangedWatch

\* stop_*_watch: the provider's stop, then .update({'is_active': False}).eq('id', ..)
SW_StopUpdate(w) ==
    /\ run[w].kind \in StartKinds
    /\ run[w].pc = "stop_update"
    /\ \/ /\ SetRun(w, [run[w] EXCEPT !.pc = "watch", !.failed = TRUE])
          /\ UNCHANGED subs
       \/ /\ subs' = Deactivate(subs, run[w].existing)
          /\ SetRun(w, [run[w] EXCEPT !.pc = "watch"])
    /\ UNCHANGED <<emails, events, nextRowId>>
    /\ UnchangedWatch

\* service.users().watch(..) / service.events().watch(..)
SW_Watch(w) ==
    /\ run[w].kind \in StartKinds
    /\ run[w].pc = "watch"
    /\ \/ SetRun(w, Abort(run[w], "watch"))
       \/ \E cursor \in WatchCursors(StartProvider(run[w])) :
            SetRun(w, [run[w] EXCEPT !.pc = "insert", !.latest = cursor])
    /\ UNCHANGED <<subs, emails, events, nextRowId>>
    /\ UnchangedWatch

\* .insert(subscription_data)
SW_Insert(w) ==
    /\ run[w].kind \in StartKinds
    /\ run[w].pc = "insert"
    /\ nextSubId <= MaxSubs
    /\ \/ /\ SetRun(w, Abort(run[w], "ins"))
          /\ UNCHANGED <<subs, nextSubId>>
       \/ /\ subs' = subs \cup {NewSub(nextSubId, StartProvider(run[w]), run[w].latest)}
          /\ nextSubId' = nextSubId + 1
          /\ SetRun(w, Ended(run[w], "ok", "none", TRUE))
    /\ UNCHANGED <<lastCall, emails, events, nextRowId, conns, users,
                   taskService, taskLog>>

StartStep(w) ==
    \/ SW_Start(w)
    \/ SW_Select(w)
    \/ SW_StopSelect(w)
    \/ SW_StopUpdate(w)
    \/ SW_Watch(w)
    \/ SW_Insert(w)
    \/ Return(w)

\* two start / renew calls of the user at a time
NextStarts == StartStep(1) \/ StartStep(2)

SpecStarts == InitWatch /\ [][NextStarts]_vars

----------------------------------------------------------------------------
(* Specification of the task store *)

\* The process has just started: nothing is stored
InitTasks ==
    /\ subs = {}
    /\ nextSubId = 1
    /\ lastCall = NoCall
    /\ emails = {}
    /\ events = {}
    /\ nextRowId = 1
    /\ run = [w \in Workers |-> IdleRun]
    /\ users = {}
    /\ conns = {}
    /\ taskService = NewTaskService
    /\ taskLog = NoTaskLog

NextTasks ==
    \/ create_task
    \/ get_task_by_id
    \/ update_task
    \/ delete_task

SpecTasks == InitTasks /\ [][NextTasks]_vars

----------------------------------------------------------------------------
(* C1: in every state reached by completed start / renew / stop calls, with  *)
(* provider and store calls free to fail, push_subscriptions holds at most   *)
(* one active row per provider, and exactly one after a successful start or  *)
(* renew.                                                                    *)
C1_OneActivePerKey ==
    /\ \A p \in Providers : Cardinality(ActiveSubs(subs, p)) <= 1
    /\ (lastCall.op \in {"start", "renew"} /\ lastCall.res = "success")
         => Cardinality(ActiveSubs(subs, lastCall.provider)) = 1

(* C2: a process_gmail_history run in which a change of the batch failed to  *)
(* apply leaves the cursor of every subscription as it was: no step of such  *)
(* a run changes a stored cursor.                                            *)
C2_CursorKeptOnFailure ==
    [][\A w \in Workers :
         (run[w].kind = "PGH" /\ run[w].failed /\ run[w].pc # "done")
           => \A s \in subs : \A t \in subs' : t.id = s.id => t.cursor = s.cursor]_vars

(* C3: in both mail entry points a provider error while fetching one added   *)
(* message is skipped: no run ends in an error because messages().get        *)
(* failed.                                                                   *)
C3_ItemErrorSkipped ==
    \A w \in Workers : run[w].abortedBy # "item_get"

(* C4: once a mail reconciliation has returned successfully, with or without *)
(* changes, the cursor stored on its subscription is the historyId of the    *)
(* history response of that run.                                             *)
C4_CursorIsReturnedHistoryId ==
    \A w \in Workers :
      (run[w].kind \in {"PGH", "PGN"} /\ run[w].pc = "done" /\ run[w].result = "ok")
        => \A s \in subs : s.id = run[w].sub => s.cursor = run[w].latest

(* C5, as stated: once a run has applied the same added message or the same  *)
(* calendar item (cancelled ones included) a second time in a row, exactly   *)
(* one row has that external id, it carries that payload, and the second     *)
(* application found a row to update.                                        *)
C5_SameChangeTwice ==
    \A w \in Workers :
      (run[w].applied /\ run[w].rep >= 2
         /\ run[w].op \in {"added", "event", "cancelled"})
        => LET rows == IF run[w].op = "added" THEN SelectByExt(emails, run[w].ext)
                       ELSE SelectByExt(events, run[w].ext)
               data == IF run[w].op = "added"
                       THEN EmailData(run[w].ext, run[w].labels)
                       ELSE EventData(run[w].ext, run[w].status)
           IN  /\ Cardinality(rows) = 1
               /\ \A r \in rows : r = WithId(data, r.id)
               /\ run[w].hit

(* C5, amended: the same for an added message or a calendar item whose       *)
(* status is not cancelled.                                                  *)
C5_SameUpsertTwice ==
    \A w \in Workers :
      (run[w].applied /\ run[w].rep >= 2 /\ run[w].op \in {"added", "event"})
        => LET rows == IF run[w].op = "added" THEN SelectByExt(emails, run[w].ext)
                       ELSE SelectByExt(events, run[w].ext)
               data == IF run[w].op = "added"
                       THEN EmailData(run[w].ext, run[w].labels)
                       ELSE EventData(run[w].ext, run[w].status)
           IN  /\ Cardinality(rows) = 1
               /\ \A r \in rows : r = WithId(data, r.id)
               /\ run[w].hit

\* a run has just applied the same calendar item for the second time
C5_Witness ==
    \E w \in Workers :
      run[w].applied /\ run[w].rep >= 2 /\ run[w].op = "event" /\ run[w].hit

(* C6: in every reachable state, two interleaved mail reconciliations        *)
(* included, at most one emails row has a given external id.                 *)
C6_UniqueExternalId ==
    \A ext \in Exts : Cardinality(SelectByExt(emails, ext)) <= 1

(* C7: once a notification-triggered run has applied a messagesDeleted       *)
(* change or a cancelled calendar item for an external id, no row of emails  *)
(* / calendar_events has that external id, whether or not one existed.       *)
C7_DeletedLeavesNoRow ==
    \A w \in Workers :
      (run[w].kind \in {"PGN", "PCN"} /\ run[w].applied
         /\ run[w].op \in {"deleted", "cancelled"})
        => IF run[w].op = "deleted" THEN SelectByExt(emails, run[w].ext) = {}
           ELSE SelectByExt(events, run[w].ext) = {}

\* a notification-triggered run has just deleted a message that had a row
C7_Witness ==
    \E w \in Workers :
      run[w].kind = "PGN" /\ run[w].applied /\ run[w].op = "deleted" /\ run[w].hit

(* C8: every webhook call, whatever its channel id, its resource state and   *)
(* the store's answers, is answered with HTTP 200 and an acknowledgment body *)
(* of status ok or error.                                                    *)
C8_AlwaysAcknowledged ==
    lastCall.op = "webhook"
      => lastCall.http = 200 /\ lastCall.res \in {"ok", "error"}

\* a change notification during which a store call raised has been answered
C8_Witness ==
    /\ lastCall.op = "webhook"
    /\ lastCall.state = "exists"
    /\ lastCall.res = "error"

(* C9: once a webhook call with state exists that matched an active          *)
(* subscription has been acknowledged, a reconciliation run for that         *)
(* subscription has been handed off: it is queued or started.                *)
C9_HandedOff ==
    (lastCall.op = "webhook" /\ lastCall.sub # 0)
      => \E w \in Workers : run[w].pc # "idle" /\ run[w].sub = lastCall.sub

(* C10: no two reconciliation runs are in flight, between the read of the    *)
(* stored cursor and the return, for the same subscription.                  *)
C10_OneInFlight ==
    \A v, w \in Workers :
      (v # w /\ run[v].pc \notin {"idle", "done"} /\ run[w].pc \notin {"idle", "done"})
        => run[v].sub # run[w].sub

(* C11: once a mail reconciliation has ended because the provider rejected   *)
(* the stored cursor, the failure is reported and the subscription is off    *)
(* the rejected cursor: it has been cleared or replaced by a fresh one.      *)
C11_RejectedCursorReplaced ==
    \A w \in Workers :
      (run[w].pc = "done" /\ run[w].abortedBy = "expired")
        => /\ run[w].result = "error"
           /\ \A s \in subs : s.id = run[w].sub => s.cursor # run[w].start

(* C12: a start (or renew) call during which a provider call of start        *)
(* failed, the watch request or for calendar the sync-token fetch, returns   *)
(* an error and inserts no push_subscriptions row.                           *)
C12_ProviderFailureNoRow ==
    [][(/\ lastCall'.op \in {"start", "renew"}
        /\ (lastCall'.watch = "failed" \/ lastCall'.token = "failed"))
         => /\ lastCall'.res = "error"
            /\ {s.id : s \in subs'} \subseteq {s.id : s \in subs}]_vars

(* C13: a renew call whose stop phase raised still issues the watch request, *)
(* and when that request and the insert succeed it returns success and the   *)
(* new row is in push_subscriptions, active.                                 *)
C13_RenewDespiteStopError ==
    [][(lastCall'.op = "renew" /\ lastCall'.stop = "error")
         => /\ lastCall'.watch # "not_issued"
            /\ (lastCall'.watch = "ok" /\ lastCall'.store = "ok")
                 => /\ lastCall'.res = "success"
                    /\ \E s \in subs' : /\ s.id = nextSubId
                                         /\ s.is_active
                                         /\ s.provider = lastCall'.provider]_vars

\* a renew has succeeded although its stop phase raised
C13_Witness ==
    /\ lastCall.op = "renew"
    /\ lastCall.stop = "error"
    /\ lastCall.res = "success"

C15_ExpiringExactly ==
    [][(lastCall'.op = "get_expiring" /\ lastCall'.res = "ok") =>
          /\ subs' = subs
          /\ \A s \in subs :
                s \in lastCall'.rows <=>
                    (s.is_active /\ s.expiration - lastCall'.now < lastCall'.h * 60)
          /\ lastCall'.rows \subseteq subs
          /\ \A s \in subs :
                (s.is_active /\ s.expiration = lastCall'.now + 120) =>
                    /\ lastCall'.h = 24 => s \in lastCall'.rows
                    /\ lastCall'.h = 1 => s \notin lastCall'.rows]_vars

\* The same call with thresholds 24 and 1 has been made on a store holding an
\* active row that expires 2 hours after now, a stopped row and a later row
C15_Witness ==
    /\ lastCall.op = "get_expiring"
    /\ lastCall.res = "ok"
    /\ lastCall.h = 24
    /\ \E s \in lastCall.rows : s.expiration = lastCall.now + 120
    /\ \E s \in subs : s \notin lastCall.rows

(* C16: once a renew-watches sweep has completed, a renew (or start) call    *)
(* has been made for every active subscription that was expiring within 24  *)
(* hours when the sweep read the store.                                      *)
C16_SweepRenewsAll ==
    (lastCall.op = "renew-watches" /\ lastCall.res = "completed") =>
        \A id \in lastCall.expiring : \E c \in lastCall.calls : c.sub = id

(* C17: a request to one of the four scheduled-job routes reads or changes   *)
(* the store only if its Authorization header equals "Bearer " followed by  *)
(* CRON_SECRET or the service runs in development mode; every other request *)
(* is answered 401, obtains no client, reads nothing and changes no row.    *)
C17_CronAuthFirst ==
    [][lastCall'.op \in Jobs =>
          LET req == lastCall'.req
              allowed ==
                  \/ /\ req.authorization.present
                     /\ req.authorization.value = "Bearer " \o req.secret
                  \/ req.env = "development"
              touched ==
                  \/ lastCall'.reads # {}
                  \/ lastCall'.client # "none"
                  \/ <<conns, subs, emails, events>>' # <<conns, subs, emails, events>>
          IN  /\ touched => allowed
              /\ ~allowed => lastCall'.http = 401 /\ ~touched]_vars

\* A production request with a wrong secret has been answered 401 after an
\* accepted sweep wrote last_synced
C17_Witness ==
    /\ lastCall.op \in Jobs
    /\ lastCall.http = 401
    /\ lastCall.req.env = "production"
    /\ lastCall.req.authorization.value = "Bearer s2"
    /\ \E c \in conns : \E t \in c.last_synced : t >= 0

(* C18: whenever a call has obtained the service-role client, the call is    *)
(* one of the four scheduled jobs and verify_cron_auth has accepted its      *)
(* request; a webhook call, a stop call made with a user's JWT and the query *)
(* for expiring subscriptions never hold it.                                 *)
C18_ServiceRoleOnlyInJobs ==
    /\ lastCall.op # "none" /\ lastCall.client = "service_role" =>
          /\ lastCall.op \in Jobs
          /\ VerifyCronAuth(lastCall.req.authorization, lastCall.req.env,
                            lastCall.req.secret)
    /\ lastCall.op \in {"webhook", "stop", "get_expiring"} =>
          lastCall.client \in {"none", "anon", "user_jwt"}

\* A webhook call for an existing channel has obtained its client after an
\* accepted sweep used the service-role client to write last_synced
C18_Witness ==
    /\ lastCall.op = "webhook"
    /\ lastCall.client = "anon"
    /\ lastCall.sub # 0
    /\ \E c \in conns : c.last_synced # NoTime

(* C19: whenever a call has been issued to the provider, the access token    *)
(* it carried is not one whose stored expiry is past or less than 5 minutes *)
(* after the time of the call.                                               *)
C19_NoStaleCredential ==
    (lastCall.op \in {"service_call", "notification_call"} /\ lastCall.called) =>
        \A c \in conns :
            c.access_token = lastCall.token =>
                \A t \in c.token_expires_at : t >= lastCall.now + 5

(* C20: in every state reached by create_oauth_connection,                   *)
(* complete_oauth_flow and revoke_connection calls, ext_connections holds at *)
(* most one row, and so at most one active row, for each user and the        *)
(* provider google.                                                          *)
C20_OneConnectionPerUser ==
    \A c1, c2 \in conns : c1.user_id = c2.user_id => c1 = c2

(* C21: a step that applies a labelsAdded change containing STARRED to the   *)
(* emails row it selected leaves that row with is_starred true, STARRED in   *)
(* labels and every other field (is_read included) as before, and leaves     *)
(* every other row as before.                                                *)
C21_StarredTouchesOnlyStar ==
    [][(/\ run[1].pc = "label" /\ run[1].op = "labelsAdded"
        /\ "STARRED" \in run[1].labelIds
        /\ run'[1] = Applied(run[1], TRUE))
         => \A r \in emails :
               IF r.id = run[1].existing
               THEN [r EXCEPT !.is_starred = TRUE,
                              !.labels = r.labels \cup {"STARRED"}] \in emails'
               ELSE r \in emails']_vars

(* C27: in every state reached by reconciliations and user email actions,   *)
(* each emails row has is_read = (UNREAD not in labels) and                  *)
(* is_starred = (STARRED in labels).                                         *)
C27_FlagsFollowLabels ==
    \A r \in emails :
        /\ r.is_read = ~("UNREAD" \in r.labels)
        /\ r.is_starred = ("STARRED" \in r.labels)

(* C22: a webhook call whose resource state is sync, or whose channel id is  *)
(* the channel id of no active subscription of its provider, changes no row  *)
(* of push_subscriptions, ext_connections, emails or calendar_events and     *)
(* starts no reconciliation run.                                             *)
C22_IgnoredCallChangesNothing ==
    [][(/\ lastCall'.op = "webhook"
        /\ \/ lastCall'.state = "sync"
           \/ {s \in ActiveSubs(subs, lastCall'.provider) :
                  s.channel_id = lastCall'.channel} = {})
         => /\ subs' = subs /\ conns' = conns
            /\ emails' = emails /\ events' = events
            /\ run' = run]_vars

\* A change notification has arrived for the channel of a stopped subscription
\* after another subscription had counted a notification, and a sync call
\* has arrived for a channel that is active
C22_Witness ==
    /\ lastCall.op = "webhook"
    /\ \/ /\ lastCall.state = "exists"
          /\ \E s \in subs : ~s.is_active /\ s.channel_id = lastCall.channel
                              /\ s.provider = lastCall.provider
          /\ \E s \in subs : s.notification_count > 0
       \/ /\ lastCall.state = "sync"
          /\ \E s \in ActiveSubs(subs, lastCall.provider) :
                 s.channel_id = lastCall.channel /\ s.notification_count > 0

C24_SyncedMeansReconciled ==
    (lastCall.op \in {"incremental-sync", "daily-verification"}
       /\ lastCall.res = "completed")
      => lastCall.done \subseteq lastCall.reconciled

(* C25: in every state reached by create / update / delete / get calls on   *)
(* the task store, a get for the id of a deleted task has reported not      *)
(* found, and the ids the creates returned are pairwise distinct, the ids of *)
(* deleted tasks included.                                                   *)
C25_DeletedGoneIdsFresh ==
    /\ (lastCall.op = "get_task_by_id" /\ lastCall.id \in taskLog.deleted)
          => lastCall.found = {}
    /\ \A i, j \in 1..Len(taskLog.issued) :
          i # j => taskLog.issued[i] # taskLog.issued[j]

\* A task was created after another had been deleted, and a get for the
\* deleted id was made while a task is stored
C25_Witness ==
    /\ lastCall.op = "get_task_by_id"
    /\ lastCall.id \in taskLog.deleted
    /\ Len(taskLog.issued) >= 2
    /\ taskLog.issued[1] \in taskLog.deleted
    /\ Len(taskService.tasks_db) >= 1

(* C26: no step of a mail reconciliation lowers the history id stored on a  *)
(* gmail subscription: each write stores a value at least as recent as the   *)
(* one it replaces.                                                          *)
C26_CursorNeverBackwards ==
    [][\A s \in subs : \A t \in subs' :
          (t.id = s.id /\ s.provider = "gmail") => t.cursor >= s.cursor]_vars

(* C28: once a mail reconciliation has stored a new cursor, every page of   *)
(* the change list had been fetched and applied: the history response it     *)
(* stopped at carried no token of a further page.                            *)
C28_AllPagesBeforeCursor ==
    \A w \in Workers :
      (run[w].kind \in {"PGH", "PGN"} /\ run[w].pc = "done" /\ run[w].wrote)
        => ~run[w].more

(* C29: a start or renew call that fails at the provider's watch request    *)
(* leaves every subscription of that provider that was active before the     *)
(* call active.                                                              *)
C29_FailedRenewalKeepsWatch ==
    [][(lastCall'.op \in {"start", "renew"} /\ lastCall'.watch = "failed")
         => ActiveSubs(subs, lastCall'.provider)
              \subseteq ActiveSubs(subs', lastCall'.provider)]_vars

(* C30: whenever no start or renew call is in flight, two interleaved calls *)
(* for the same provider included, push_subscriptions holds at most one      *)
(* active row per provider.                                                  *)
C30_OneActiveAfterConcurrentStarts ==
    (\A w \in Workers : run[w].pc \in {"idle", "done"})
      => \A p \in Providers : Cardinality(ActiveSubs(subs, p)) <= 1

====
